---- MODULE Spec2Model ----
(***************************************************************************)
(* Model of backend/app.py: the recommendation inference service.          *)
(*                                                                         *)
(* State: the five module-level globals that hold the artifacts, the       *)
(* artifact files on disk that load_all_artifacts reads, and the last      *)
(* request with its outcome.  numpy arrays and Python dicts are functions  *)
(* over 0-based indices, as in the source.  Similarities are scaled by 10  *)
(* to integers (1.0 -> 10, 0.8 -> 8), which keeps their order.             *)
(***************************************************************************)
EXTENDS Integers, Sequences, FiniteSets, TLC

VARIABLES
    fs,               \* the artifact files under CF_DIR and CBF_DIR
    tieOrder,         \* how this build's np.argsort orders equal scores
    CF_USER_FACTORS,
    CF_ITEM_FACTORS,
    CF_MAPPERS,
    CBF_SIM_MATRIX,
    CBF_MAPPERS,
    phase,            \* "startup" before load_all_artifacts ran, then "serving"
    lastReq,          \* the last request: endpoint, id, k
    lastOut,          \* its outcome
    memo              \* history variable: one earlier request and its outcome

vars == <<fs, tieOrder, CF_USER_FACTORS, CF_ITEM_FACTORS, CF_MAPPERS,
          CBF_SIM_MATRIX, CBF_MAPPERS, phase, lastReq, lastOut, memo>>

store == <<CF_USER_FACTORS, CF_ITEM_FACTORS, CF_MAPPERS, CBF_SIM_MATRIX, CBF_MAPPERS>>

----------------------------------------------------------------------------
(* Bounds of the model. *)

\* Largest k a request carries; num_items is 3, so 4 exceeds it.
MaxK == 4
\* Smallest k a request carries is -MinKAbs.
MinKAbs == 1
\* Largest entry drawn for an item-factor row or a similarity row.
MaxVal == 1

----------------------------------------------------------------------------
(* Python values. *)

None == [tag |-> "None"]

IsNone(x) == x.tag = "None"

\* A tuple as a 0-based array (a numpy vector, a list, or an index -> value dict).
Arr(s) == [i \in 0..(Len(s) - 1) |-> s[i + 1]]

\* A tuple of row tuples as a 0-based 2-D array.
Mat(s) == [i \in 0..(Len(s) - 1) |-> Arr(s[i + 1])]

ALen(a) == Cardinality(DOMAIN a)

\* A 0-based array as a sequence (the JSON list of the response).
ToSeq(a) == [p \in 1..ALen(a) |-> a[p - 1]]

NdArray(m) == [tag |-> "ndarray", a |-> m]

\* ndarray.shape[0] and shape[1] of a 2-D array
Shape0(m) == ALen(m)
Shape1(m) == IF ALen(m) = 0 THEN 0 ELSE ALen(m[0])

Range(f) == {f[x] : x \in DOMAIN f}

----------------------------------------------------------------------------
(* The artifact files.  A file is Unreadable (missing, or its load raises)  *)
(* or holds a value.                                                        *)

Unreadable == [tag |-> "unreadable"]

IsReadable(f) == f.tag # "unreadable"

UserIds == <<"u0", "u1">>
ItemIds == <<"item0", "item1", "item2">>
NumItems == Len(ItemIds)
Factors == 0..1

\* An id no mapping holds (a cold-start user or item).
UnknownId == "ghost"

\* mappers.pkl: a dict with "users" and "items", both index -> id.  `keys` is
\* the set of keys the dict holds; a field whose key is absent is empty.
CFPickle(users, items, keys) ==
    [tag |-> "dict", keys |-> keys,
     users |-> IF "users" \in keys THEN Arr(users) ELSE <<>>,
     items |-> IF "items" \in keys THEN Arr(items) ELSE <<>>,
     user_id_to_index |-> <<>>]

\* cbf_mappers.pkl: item_id_to_index and index_to_item_id, mutually inverse.
CBFPickle(items) ==
    [tag |-> "dict", keys |-> {"item_id_to_index", "index_to_item_id"},
     index_to_item_id |-> Arr(items),
     item_id_to_index |-> [v \in Range(items) |->
                              (CHOOSE p \in 1..Len(items) : items[p] = v) - 1]]

\* The spec's concrete scenarios.
ExampleUF  == Mat(<< <<1, 0>>, <<0, 1>> >>)
ExampleIF  == Mat(<< <<2, 0, 1>>, <<0, 3, 1>> >>)
ExampleSim == Mat(<< <<10, 8, 1>>, <<8, 10, 3>>, <<1, 3, 10>> >>)

ExampleFS ==
    [cf_mappers       |-> CFPickle(UserIds, ItemIds, {"users", "items"}),
     cf_user_factors  |-> NdArray(ExampleUF),
     cf_item_factors  |-> NdArray(ExampleIF),
     cbf_mappers      |-> CBFPickle(ItemIds),
     cbf_sim          |-> NdArray(ExampleSim)]

\* Every way the five files can be readable or not, and mappers.pkl without
\* its "users" key (deriving user_id_to_index then raises KeyError).
FailureInputs ==
    {[cf_mappers      |-> m,
      cf_user_factors |-> u,
      cf_item_factors |-> i,
      cbf_mappers     |-> cm,
      cbf_sim         |-> cs] :
        m  \in {Unreadable, ExampleFS.cf_mappers, CFPickle(UserIds, ItemIds, {"items"})},
        u  \in {Unreadable, ExampleFS.cf_user_factors},
        i  \in {Unreadable, ExampleFS.cf_item_factors},
        cm \in {Unreadable, ExampleFS.cbf_mappers},
        cs \in {Unreadable, ExampleFS.cbf_sim}}

\* CF bundles whose files all load but whose shapes disagree: item factors
\* stored items x factors, a user matrix with fewer rows than users, an
\* item mapping with fewer ids than item_factors has columns.
ShapeInputs ==
    {[ExampleFS EXCEPT !.cf_item_factors =
          NdArray(Mat(<< <<2, 0>>, <<0, 3>>, <<1, 1>> >>))],
     [ExampleFS EXCEPT !.cf_user_factors = NdArray(Mat(<< <<1, 0>> >>))],
     [ExampleFS EXCEPT !.cf_mappers =
          CFPickle(UserIds, SubSeq(ItemIds, 1, 2), {"users", "items"})]}

\* Consistent CF bundles: user 0's factors over 0..1, the item factors of
\* factor 0 over 0..MaxVal (with user factors <<1, 0>> the scores are that
\* row, so every pattern of equal and distinct scores occurs).
CFWideInputs ==
    {[ExampleFS EXCEPT
        !.cf_user_factors = NdArray([u \in 0..1 |-> IF u = 0 THEN r ELSE ExampleUF[1]]),
        !.cf_item_factors = NdArray([f \in Factors |-> IF f = 0 THEN m ELSE ExampleIF[1]])] :
        r \in [Factors -> 0..1],
        m \in [0..(NumItems - 1) -> 0..MaxVal]}

\* Similarity matrices whose row and column of item 0 range over 0..MaxVal,
\* the rest as in the example: item 0's row takes every pattern, ties with
\* its self-similarity included.
CBFWideInputs ==
    {[ExampleFS EXCEPT !.cbf_sim =
        NdArray([i \in 0..(NumItems - 1) |-> [j \in 0..(NumItems - 1) |->
            IF i = 0 THEN e[j] ELSE IF j = 0 THEN e[i] ELSE ExampleSim[i][j]]])] :
        e \in [0..(NumItems - 1) -> 0..MaxVal]}

Inputs == FailureInputs \cup ShapeInputs \cup CFWideInputs \cup CBFWideInputs

\* np.argsort leaves the order of equal elements to the sort the build picks;
\* a build is one ranking of the positions that decides every tie.
TieOrders ==
    {p \in [0..(NumItems - 1) -> 0..(NumItems - 1)] :
        \A i, j \in DOMAIN p : p[i] = p[j] => i = j}

KInputs == (0 - MinKAbs)..MaxK

NoReq == [endpoint |-> "none", id |-> "", k |-> 0]
NoOut == [kind |-> "none", detail |-> "", recs |-> <<>>]

\* The history variable before anything is remembered.
NoMemo == [taken |-> FALSE, req |-> NoReq, out |-> NoOut, store |-> <<>>, others |-> FALSE]

\* Before load_all_artifacts runs: the globals as the module assigns them.
InitFrom(files, ties) ==
    /\ fs \in files
    /\ tieOrder \in ties
    /\ CF_USER_FACTORS = None
    /\ CF_ITEM_FACTORS = None
    /\ CF_MAPPERS = None
    /\ CBF_SIM_MATRIX = None
    /\ CBF_MAPPERS = None
    /\ phase = "startup"
    /\ lastReq = NoReq
    /\ lastOut = NoOut
    /\ memo = NoMemo

Init == InitFrom(Inputs, TieOrders)

----------------------------------------------------------------------------
(* load_all_artifacts.  Each try block runs its statements in order and    *)
(* stops at the first one that raises; the globals assigned before it keep *)
(* their new values.                                                       *)

\* {v: k for k, v in d.items()}: a later index overwrites an earlier one.
InvertMapping(d) ==
    [v \in Range(d) |->
        CHOOSE k \in DOMAIN d : d[k] = v /\ \A k2 \in DOMAIN d : d[k2] = v => k2 <= k]

\* Mutant: the loader checks the shapes and leaves a bundle that fails unset.
LoadCF_Validating(files) ==
    IF ~IsReadable(files.cf_mappers) THEN <<None, None, None>>
    ELSE IF ~IsReadable(files.cf_user_factors) THEN <<files.cf_mappers, None, None>>
    ELSE IF ~IsReadable(files.cf_item_factors)
         THEN <<files.cf_mappers, files.cf_user_factors, None>>
    ELSE IF "users" \notin files.cf_mappers.keys
         THEN <<files.cf_mappers, files.cf_user_factors, files.cf_item_factors>>
    ELSE IF \/ Shape0(files.cf_user_factors.a) # ALen(files.cf_mappers.users)
            \/ Shape1(files.cf_user_factors.a) # Shape0(files.cf_item_factors.a)
            \/ Shape1(files.cf_item_factors.a) # ALen(files.cf_mappers.items)
         THEN <<None, None, None>>
    ELSE <<[files.cf_mappers EXCEPT
                !.keys = @ \cup {"user_id_to_index"},
                !.user_id_to_index = InvertMapping(files.cf_mappers.users)],
           files.cf_user_factors, files.cf_item_factors>>

\* The CF try block: <<CF_MAPPERS, CF_USER_FACTORS, CF_ITEM_FACTORS>> after it.
LoadCF(files) ==
    IF ~IsReadable(files.cf_mappers) THEN <<None, None, None>>
    ELSE IF ~IsReadable(files.cf_user_factors) THEN <<files.cf_mappers, None, None>>
    ELSE IF ~IsReadable(files.cf_item_factors)
         THEN <<files.cf_mappers, files.cf_user_factors, None>>
    ELSE IF "users" \notin files.cf_mappers.keys
         THEN <<files.cf_mappers, files.cf_user_factors, files.cf_item_factors>>
    ELSE <<[files.cf_mappers EXCEPT
                !.keys = @ \cup {"user_id_to_index"},
                !.user_id_to_index = InvertMapping(files.cf_mappers.users)],
           files.cf_user_factors, files.cf_item_factors>>

\* The CBF try block: <<CBF_MAPPERS, CBF_SIM_MATRIX>> after it.
LoadCBF(files) ==
    IF ~IsReadable(files.cbf_mappers) THEN <<None, None>>
    ELSE IF ~IsReadable(files.cbf_sim) THEN <<files.cbf_mappers, None>>
    ELSE <<files.cbf_mappers, files.cbf_sim>>

load_all_artifacts ==
    /\ phase = "startup"
    /\ CF_MAPPERS' = LoadCF(fs)[1]
    /\ CF_USER_FACTORS' = LoadCF(fs)[2]
    /\ CF_ITEM_FACTORS' = LoadCF(fs)[3]
    /\ CBF_MAPPERS' = LoadCBF(fs)[1]
    /\ CBF_SIM_MATRIX' = LoadCBF(fs)[2]
    /\ phase' = "serving"
    /\ UNCHANGED <<fs, tieOrder, lastReq, lastOut, memo>>

----------------------------------------------------------------------------
(* numpy and Python list operations used by the two endpoints. *)

\* np.argsort(scores): the positions in ascending order of score.  Position i
\* comes after every j with a smaller score, and among equal scores after
\* the ones this build ranks lower.
Before(scores, tie, j, i) ==
    \/ scores[j] < scores[i]
    \/ scores[j] = scores[i] /\ tie[j] < tie[i]

ArgSort(scores, tie) ==
    [p \in DOMAIN scores |->
        CHOOSE i \in DOMAIN scores :
            Cardinality({j \in DOMAIN scores : Before(scores, tie, j, i)}) = p]

\* A slice bound as Python clamps it for a sequence of length n.
ClampIndex(x, n) ==
    IF x < 0 THEN (IF x + n < 0 THEN 0 ELSE x + n)
    ELSE IF x > n THEN n ELSE x

\* a[start:stop]
PySlice(a, start, stop) ==
    LET n  == ALen(a)
        lo == ClampIndex(start, n)
        hi == ClampIndex(stop, n)
    IN  IF hi <= lo THEN <<>>
        ELSE [p \in 0..(hi - lo - 1) |-> a[lo + p]]

\* a[start:]
PySliceFrom(a, start) == PySlice(a, start, ALen(a))

\* a[::-1]
Reversed(a) == [p \in DOMAIN a |-> a[ALen(a) - 1 - p]]

\* sum over f < n of v[f] * m[f][j]
RECURSIVE DotSum(_, _, _, _)
DotSum(v, m, j, n) ==
    IF n = 0 THEN 0 ELSE DotSum(v, m, j, n - 1) + v[n - 1] * m[n - 1][j]

\* vector.dot(matrix) for a 1-D vector and a 2-D matrix of matching shape
Dot(v, m) == [j \in 0..(Shape1(m) - 1) |-> DotSum(v, m, j, ALen(v))]

----------------------------------------------------------------------------
(* Outcomes of a request.  An HTTPException the handler raises itself is a *)
(* typed failure; an exception raised outside the try block reaches the    *)
(* framework untranslated.                                                 *)

Result(recs)       == [kind |-> "Result", detail |-> "", recs |-> recs]
NotReady(detail)   == [kind |-> "NotReady", detail |-> detail, recs |-> <<>>]
NotFound(detail)   == [kind |-> "NotFound", detail |-> detail, recs |-> <<>>]
InternalError(detail) == [kind |-> "InternalError", detail |-> detail, recs |-> <<>>]
Unhandled(exc)     == [kind |-> "Unhandled", detail |-> exc, recs |-> <<>>]

\* Mutant: the final [::-1] is dropped, so the ranking is ascending.
CFTopK_NoReverse(scores, tie, k) == PySliceFrom(ArgSort(scores, tie), 0 - k)

\* Mutant: the top k taken as [:k] of the descending order, empty for k = 0.
CFTopK_HeadSlice(scores, tie, k) == PySlice(Reversed(ArgSort(scores, tie)), 0, k)

\* np.argsort(scores)[-k:][::-1]
CFTopK(scores, tie, k) == Reversed(PySliceFrom(ArgSort(scores, tie), 0 - k))

\* Mutant: the slice starts at rank 0, so the first entry is not skipped.
CBFTopK_NoSkip(scores, tie, k) == PySlice(Reversed(ArgSort(scores, tie)), 0, k)

\* np.argsort(scores)[::-1][1 : k + 1]
CBFTopK(scores, tie, k) == PySlice(Reversed(ArgSort(scores, tie)), 1, k + 1)

\* The try block of get_cf_recommendations; any exception in it becomes
\* "Error during CF inference.".
CFInference(mappers, uf, itf, tie, user_index, k) ==
    IF user_index \notin DOMAIN uf.a                       \* IndexError
        THEN InternalError("Error during CF inference.")
    ELSE IF IsNone(itf)                                     \* dot with None
        THEN InternalError("Error during CF inference.")
    ELSE IF ALen(uf.a[user_index]) # Shape0(itf.a)          \* shapes not aligned
        THEN InternalError("Error during CF inference.")
    ELSE LET scores == Dot(uf.a[user_index], itf.a)
             top    == CFTopK(scores, tie, k)
         IN  IF "items" \notin mappers.keys
                \/ \E p \in DOMAIN top : top[p] \notin DOMAIN mappers.items
                THEN InternalError("Error during CF inference.")
             ELSE Result(ToSeq([p \in DOMAIN top |-> mappers.items[top[p]]]))

\* Mutant: an unknown user id falls back to index 0 (.get(user_id, 0)).
CFOutcome_DefaultIndex(mappers, uf, itf, tie, user_id, k) ==
    IF IsNone(uf) \/ IsNone(mappers) THEN NotReady("CF model not loaded.")
    ELSE IF "user_id_to_index" \notin mappers.keys THEN Unhandled("KeyError")
    ELSE CFInference(mappers, uf, itf, tie,
                     IF user_id \in DOMAIN mappers.user_id_to_index
                         THEN mappers.user_id_to_index[user_id] ELSE 0, k)

CFOutcome(mappers, uf, itf, tie, user_id, k) ==
    IF IsNone(uf) \/ IsNone(mappers) THEN NotReady("CF model not loaded.")
    ELSE IF "user_id_to_index" \notin mappers.keys THEN Unhandled("KeyError")
    ELSE IF user_id \notin DOMAIN mappers.user_id_to_index
        THEN NotFound("User not found (cold start).")
    ELSE CFInference(mappers, uf, itf, tie, mappers.user_id_to_index[user_id], k)

\* The try block of get_cbf_recommendations.
CBFInference(mappers, sim, tie, item_index, k) ==
    IF item_index \notin DOMAIN sim.a                       \* IndexError
        THEN InternalError("Error during CBF inference.")
    ELSE LET scores == sim.a[item_index]
             top    == CBFTopK(scores, tie, k)
         IN  IF "index_to_item_id" \notin mappers.keys
                \/ \E p \in DOMAIN top : top[p] \notin DOMAIN mappers.index_to_item_id
                THEN InternalError("Error during CBF inference.")
             ELSE Result(ToSeq([p \in DOMAIN top |-> mappers.index_to_item_id[top[p]]]))

CBFOutcome(mappers, sim, tie, item_id, k) ==
    IF IsNone(sim) \/ IsNone(mappers) THEN NotReady("CBF model not loaded.")
    ELSE IF "item_id_to_index" \notin mappers.keys THEN Unhandled("KeyError")
    ELSE IF item_id \notin DOMAIN mappers.item_id_to_index
        THEN NotFound("Item not found.")
    ELSE CBFInference(mappers, sim, tie, mappers.item_id_to_index[item_id], k)

UserIdInputs == Range(UserIds) \cup {UnknownId}
ItemIdInputs == Range(ItemIds) \cup {UnknownId}

\* History only: once a request is remembered, note that a different one ran.
Track(m, req) ==
    IF m.taken /\ req # m.req THEN [m EXCEPT !.others = TRUE] ELSE m

\* Mutant: a request drops the similarity matrix (assigns a global).
StoreAfterRequest_Evicting(s) == <<s[1], s[2], s[3], None, s[5]>>

\* What a request leaves of the five globals: it assigns none of them.
StoreAfterRequest(s) == s

get_cf_recommendations ==
    /\ phase = "serving"
    /\ \E user_id \in UserIdInputs, k \in KInputs :
        /\ lastReq' = [endpoint |-> "cf", id |-> user_id, k |-> k]
        /\ lastOut' = CFOutcome(CF_MAPPERS, CF_USER_FACTORS, CF_ITEM_FACTORS,
                                tieOrder, user_id, k)
        /\ memo' = Track(memo, [endpoint |-> "cf", id |-> user_id, k |-> k])
    /\ CF_USER_FACTORS' = StoreAfterRequest(store)[1]
    /\ CF_ITEM_FACTORS' = StoreAfterRequest(store)[2]
    /\ CF_MAPPERS' = StoreAfterRequest(store)[3]
    /\ CBF_SIM_MATRIX' = StoreAfterRequest(store)[4]
    /\ CBF_MAPPERS' = StoreAfterRequest(store)[5]
    /\ UNCHANGED <<fs, tieOrder, phase>>

get_cbf_recommendations ==
    /\ phase = "serving"
    /\ \E item_id \in ItemIdInputs, k \in KInputs :
        /\ lastReq' = [endpoint |-> "cbf", id |-> item_id, k |-> k]
        /\ lastOut' = CBFOutcome(CBF_MAPPERS, CBF_SIM_MATRIX, tieOrder, item_id, k)
        /\ memo' = Track(memo, [endpoint |-> "cbf", id |-> item_id, k |-> k])
    /\ CF_USER_FACTORS' = StoreAfterRequest(store)[1]
    /\ CF_ITEM_FACTORS' = StoreAfterRequest(store)[2]
    /\ CF_MAPPERS' = StoreAfterRequest(store)[3]
    /\ CBF_SIM_MATRIX' = StoreAfterRequest(store)[4]
    /\ CBF_MAPPERS' = StoreAfterRequest(store)[5]
    /\ UNCHANGED <<fs, tieOrder, phase>>

Next ==
    \/ load_all_artifacts
    \/ get_cf_recommendations
    \/ get_cbf_recommendations

Spec == Init /\ [][Next]_vars

----------------------------------------------------------------------------
(* History of requests, for claims that compare a request with an earlier  *)
(* one.  Observe remembers the last request, its outcome and the store; it *)
(* is not a step of the program and changes none of its state.             *)

Observe ==
    /\ phase = "serving"
    /\ ~memo.taken
    /\ memo' = [taken |-> TRUE, req |-> lastReq, out |-> lastOut,
                store |-> store, others |-> FALSE]
    /\ UNCHANGED <<fs, tieOrder, CF_USER_FACTORS, CF_ITEM_FACTORS, CF_MAPPERS,
                   CBF_SIM_MATRIX, CBF_MAPPERS, phase, lastReq, lastOut>>

\* A CF bundle whose scores tie, beside the example and two failed loads.
TieFS ==
    [ExampleFS EXCEPT
        !.cf_item_factors = NdArray(Mat(<< <<1, 1, 0>>, <<0, 3, 1>> >>)),
        !.cbf_sim = NdArray(Mat(<< <<1, 1, 0>>, <<1, 10, 3>>, <<0, 3, 10>> >>))]

HistInputs ==
    {ExampleFS, TieFS,
     [ExampleFS EXCEPT !.cf_item_factors = Unreadable],
     [ExampleFS EXCEPT !.cf_mappers = Unreadable, !.cbf_sim = Unreadable]}

HistTieOrders ==
    {[i \in 0..(NumItems - 1) |-> i], [i \in 0..(NumItems - 1) |-> NumItems - 1 - i]}

InitHist == InitFrom(HistInputs, HistTieOrders)

NextHist ==
    \/ load_all_artifacts
    \/ get_cf_recommendations
    \/ get_cbf_recommendations
    \/ Observe

SpecHist == InitHist /\ [][NextHist]_vars

----------------------------------------------------------------------------
(* Vocabulary of the claims. *)

Served(endpoint) == phase = "serving" /\ lastReq.endpoint = endpoint

Min(a, b) == IF a <= b THEN a ELSE b

NoDuplicates(seq) == \A p, q \in 1..Len(seq) : seq[p] = seq[q] => p = q

\* The CF try block of the loader ran to its end: every CF field is set.
CFBundleLoaded ==
    /\ ~IsNone(CF_MAPPERS) /\ ~IsNone(CF_USER_FACTORS) /\ ~IsNone(CF_ITEM_FACTORS)
    /\ "user_id_to_index" \in CF_MAPPERS.keys

CBFBundleLoaded == ~IsNone(CBF_MAPPERS) /\ ~IsNone(CBF_SIM_MATRIX)

\* user_factors.rows = |user_id_to_index|, the factor counts agree, and
\* item_factors has one column per item id.
CFShapesAgree(mappers, uf, itf) ==
    /\ Shape0(uf.a) = Cardinality(DOMAIN mappers.users)
    /\ Shape1(uf.a) = Shape0(itf.a)
    /\ "items" \in mappers.keys
    /\ Shape1(itf.a) = ALen(mappers.items)

CFConsistent ==
    /\ CFBundleLoaded
    /\ CFShapesAgree(CF_MAPPERS, CF_USER_FACTORS, CF_ITEM_FACTORS)
    /\ \A i, j \in DOMAIN CF_MAPPERS.items :
          CF_MAPPERS.items[i] = CF_MAPPERS.items[j] => i = j

KnownUser(id) == CFBundleLoaded /\ id \in DOMAIN CF_MAPPERS.user_id_to_index
KnownItem(id) == CBFBundleLoaded /\ id \in DOMAIN CBF_MAPPERS.item_id_to_index

CFItemIndex(id) == CHOOSE j \in DOMAIN CF_MAPPERS.items : CF_MAPPERS.items[j] = id
CBFItemIndex(id) ==
    CHOOSE j \in DOMAIN CBF_MAPPERS.index_to_item_id : CBF_MAPPERS.index_to_item_id[j] = id

\* score(j) = user_factors[user_index] . item_factors[:, j]
CFScore(user_id, j) ==
    LET u == CF_USER_FACTORS.a[CF_MAPPERS.user_id_to_index[user_id]]
    IN  DotSum(u, CF_ITEM_FACTORS.a, j, ALen(u))

CFNonIncreasing(user_id, recs) ==
    \A p, q \in 1..Len(recs) :
        p < q => CFScore(user_id, CFItemIndex(recs[p])) >= CFScore(user_id, CFItemIndex(recs[q]))

\* similarity of the query item to item j
CBFSim(item_id, j) == CBF_SIM_MATRIX.a[CBF_MAPPERS.item_id_to_index[item_id]][j]

\* The orders of all positions by non-increasing similarity to the query item.
DescendingOrders(item_id) ==
    LET n == ALen(CBF_SIM_MATRIX.a[CBF_MAPPERS.item_id_to_index[item_id]])
    IN  {d \in [0..(n - 1) -> 0..(n - 1)] :
            /\ \A i, j \in 0..(n - 1) : d[i] = d[j] => i = j
            /\ \A i, j \in 0..(n - 1) : i < j => CBFSim(item_id, d[i]) >= CBFSim(item_id, d[j])}

\* Every item's self-similarity is the maximum of its row (ties allowed).
SelfSimilarityMaximal ==
    \A i \in DOMAIN CBF_SIM_MATRIX.a : \A j \in DOMAIN CBF_SIM_MATRIX.a[i] :
        i \in DOMAIN CBF_SIM_MATRIX.a[i] /\ CBF_SIM_MATRIX.a[i][i] >= CBF_SIM_MATRIX.a[i][j]

\* The CF try block of the loader raised at one of its four steps.
CFLoadFailed(files) ==
    \/ ~IsReadable(files.cf_mappers)
    \/ ~IsReadable(files.cf_user_factors)
    \/ ~IsReadable(files.cf_item_factors)
    \/ "users" \notin files.cf_mappers.keys

----------------------------------------------------------------------------
(* C1.  For a known user id and k >= 1, with the CF bundle loaded and       *)
(* consistent, get_cf_recommendations returns exactly min(k, num_items)     *)
(* item ids, each in CF_MAPPERS["items"], without duplicates, in            *)
(* non-increasing order of score; in the example (user 0, k = 2) it returns *)
(* [item0, item2].                                                          *)
C1_CFTopK ==
    (/\ Served("cf")
     /\ CFConsistent
     /\ KnownUser(lastReq.id)
     /\ lastReq.k >= 1)
    => /\ lastOut.kind = "Result"
       /\ Len(lastOut.recs) = Min(lastReq.k, Shape1(CF_ITEM_FACTORS.a))
       /\ \A p \in 1..Len(lastOut.recs) : lastOut.recs[p] \in Range(CF_MAPPERS.items)
       /\ NoDuplicates(lastOut.recs)
       /\ CFNonIncreasing(lastReq.id, lastOut.recs)
       /\ (fs = ExampleFS /\ lastReq.id = "u0" /\ lastReq.k = 2
             => lastOut.recs = <<"item0", "item2">>)

\* The example request has been served from the example artifacts.
C1_Witness ==
    /\ Served("cf")
    /\ CFConsistent
    /\ fs = ExampleFS
    /\ lastReq.id = "u0" /\ lastReq.k = 2
    /\ lastOut = Result(<<"item0", "item2">>)

(* C2.  For a known item id and k >= 1, with the CBF bundle loaded,         *)
(* get_cbf_recommendations returns exactly min(k, num_items - 1) ids: the   *)
(* entries at ranks 1..k of a descending order of the query item's          *)
(* similarity row (rank 0 is skipped), so in non-increasing similarity; in  *)
(* the example (item0, k = 1) it returns [item1].                           *)
C2_CBFTopK ==
    (/\ Served("cbf")
     /\ KnownItem(lastReq.id)
     /\ lastReq.k >= 1)
    => /\ lastOut.kind = "Result"
       /\ Len(lastOut.recs) = Min(lastReq.k, Shape0(CBF_SIM_MATRIX.a) - 1)
       /\ \E d \in DescendingOrders(lastReq.id) :
            \A p \in 1..Len(lastOut.recs) :
                lastOut.recs[p] = CBF_MAPPERS.index_to_item_id[d[p]]
       /\ \A p, q \in 1..Len(lastOut.recs) :
            p < q => CBFSim(lastReq.id, CBFItemIndex(lastOut.recs[p]))
                       >= CBFSim(lastReq.id, CBFItemIndex(lastOut.recs[q]))
       /\ (fs = ExampleFS /\ lastReq.id = "item0" /\ lastReq.k = 1
             => lastOut.recs = <<"item1">>)

\* The example request has been served from the example similarity matrix.
C2_Witness ==
    /\ Served("cbf")
    /\ fs = ExampleFS
    /\ lastReq.id = "item0" /\ lastReq.k = 1
    /\ lastOut = Result(<<"item1">>)

(* C3.  For a known item id and k >= 1, when every item's self-similarity  *)
(* is the maximum of its row (ties with it allowed), the list               *)
(* get_cbf_recommendations returns never holds the queried item id.         *)
(* The code skips rank 0 whatever is there, so a tie refutes this.          *)
C3_SelfExcluded ==
    (/\ Served("cbf")
     /\ KnownItem(lastReq.id)
     /\ lastReq.k >= 1
     /\ SelfSimilarityMaximal)
    => \A p \in 1..Len(lastOut.recs) : lastOut.recs[p] # lastReq.id

(* C4.  If loading the CF bundle fails at any step (mappers.pkl,            *)
(* user_factors.npy, item_factors.npy, deriving user_id_to_index), every    *)
(* later CF request fails with NotReady "CF model not loaded.", and CBF     *)
(* requests for known item ids still return their result.                   *)
C4_IndependentFailure ==
    (phase = "serving" /\ CFLoadFailed(fs))
    => /\ Served("cf") => lastOut = NotReady("CF model not loaded.")
       /\ (Served("cbf") /\ KnownItem(lastReq.id)) => lastOut.kind = "Result"

(* C5.  Cold start: with the recommender's bundle loaded, a request whose   *)
(* id is absent from the id-to-index mapping fails with NotFound for every  *)
(* k, and NotFound is returned only when that bundle is loaded.             *)
C5_ColdStart ==
    /\ (Served("cf") /\ CFBundleLoaded
            /\ lastReq.id \notin DOMAIN CF_MAPPERS.user_id_to_index)
        => lastOut.kind = "NotFound"
    /\ (Served("cbf") /\ CBFBundleLoaded
            /\ lastReq.id \notin DOMAIN CBF_MAPPERS.item_id_to_index)
        => lastOut.kind = "NotFound"
    /\ (Served("cf") /\ lastOut.kind = "NotFound") => CFBundleLoaded
    /\ (Served("cbf") /\ lastOut.kind = "NotFound") => CBFBundleLoaded

\* A cold-start user has been refused by a loaded CF bundle.
C5_Witness ==
    /\ Served("cf")
    /\ CFBundleLoaded
    /\ lastReq.id = UnknownId
    /\ lastOut.kind = "NotFound"

(* C6.  After load_all_artifacts returns, each bundle is all-or-nothing:    *)
(* every field of it is set, or every field of it is None.                  *)
C6_AllOrNothing ==
    phase = "serving"
    => /\ \/ CFBundleLoaded
          \/ IsNone(CF_MAPPERS) /\ IsNone(CF_USER_FACTORS) /\ IsNone(CF_ITEM_FACTORS)
       /\ \/ CBFBundleLoaded
          \/ IsNone(CBF_MAPPERS) /\ IsNone(CBF_SIM_MATRIX)

(* C7.  Every request to either recommender ends in a result list,          *)
(* NotReady, NotFound or InternalError; no untranslated exception leaves    *)
(* the handler.                                                             *)
C7_TypedOutcome ==
    (Served("cf") \/ Served("cbf"))
    => lastOut.kind \in {"Result", "NotReady", "NotFound", "InternalError"}

C9_HistoryIndependent ==
    memo.taken
    => /\ store = memo.store
       /\ lastReq = memo.req => lastOut = memo.out

\* A CF request was repeated after a different request and returned a list again.
C9_Witness ==
    /\ memo.taken
    /\ memo.others
    /\ memo.req.endpoint = "cf"
    /\ lastReq = memo.req
    /\ lastOut.kind = "Result"
    /\ Len(lastOut.recs) >= 2

(* C10.  Neither endpoint rejects k <= 0.  With k = 0, for a known id,      *)
(* get_cf_recommendations returns all num_items item ids in non-increasing  *)
(* order of score and get_cbf_recommendations returns the empty list.       *)
C10_ZeroK ==
    /\ (Served("cf") /\ CFConsistent /\ KnownUser(lastReq.id) /\ lastReq.k = 0)
        => /\ lastOut.kind = "Result"
           /\ Len(lastOut.recs) = Shape1(CF_ITEM_FACTORS.a)
           /\ NoDuplicates(lastOut.recs)
           /\ CFNonIncreasing(lastReq.id, lastOut.recs)
    /\ (Served("cbf") /\ KnownItem(lastReq.id) /\ lastReq.k = 0)
        => lastOut = Result(<<>>)
    /\ (/\ lastReq.k <= 0
        /\ \/ Served("cf") /\ CFConsistent /\ KnownUser(lastReq.id)
           \/ Served("cbf") /\ KnownItem(lastReq.id))
        => lastOut.kind = "Result"

\* A CF request with k = 0 returned the whole ranking.
C10_Witness ==
    /\ Served("cf")
    /\ CFConsistent
    /\ lastReq.k = 0
    /\ lastOut.kind = "Result"
    /\ Len(lastOut.recs) = NumItems

====
